---- MODULE Spec2Model ----
(***************************************************************************)
(* Model of fs_mgr/libfstab/boot_config.cpp: the kernel command line       *)
(* tokenizer, the bootconfig line parser, the one-time computation of the  *)
(* Android device-tree directory and the layered boot config resolver.     *)
(*                                                                         *)
(* A std::string is a sequence of one-character strings.  Positions are    *)
(* the 0-based positions of the C++ code; At(s, i) is s[i].                *)
(***************************************************************************)
EXTENDS Integers, Sequences, FiniteSets, TLC

\* ------------------------------------------------------------------------
\* Bounds of the model.

\* Longest enumerated command line given to fs_mgr_parse_cmdline.
MaxCmdlineLen == 5

\* Most value fragments in the value of an enumerated one-line bootconfig.
MaxValueParts == 3

\* Most lines of an enumerated many-line bootconfig.
MaxLines == 2

\* Threads that may call GetAndroidDtDir at the same time.
NumThreads == 2

\* Calls each thread makes.
MaxCalls == 2

\* Times the contents of /proc/bootconfig and /proc/cmdline change.
MaxEnvChanges == 1

VARIABLES
    \* fs_mgr_parse_cmdline: its argument, its locals and its place.
    cmdline, base, found, result, tpc,
    \* GetBootconfigFromString: its arguments, the lines Split gave, the index
    \* of the line the range-for is at, the lambda's captures [found, out],
    \* the calls fn got so far, the return value and its place.
    bootconfig, bkey, lines, li, bst, visited, bret, bpc,
    \* The collaborators: is_dt_compatible(), the files ReadFileToString
    \* reads (path -> content, or NoFile), the property store, and how often
    \* /proc changed.
    is_dt_compatible, files, props, envChanges,
    \* GetAndroidDtDir's function-local static: its initialisation guard
    \* ("uninit", "running", "done") and its value; how often the initializer
    \* ran, how often it read each /proc file, and every string a call returned.
    guard, kAndroidDtDir, initRuns, initReads, returned,
    \* Per thread: its place, the function it called, the caller's *out_val,
    \* the return value, the reads of each source during the call, the calls
    \* finished, the initializer's locals (android_dt_dir and the value of the
    \* || of the two lookups) and the string GetAndroidDtDir returned to it.
    pc, op, out_val, ret, reads, calls, android_dt_dir, lookup_ok, dt_dir

tokVars == <<cmdline, base, found, result, tpc>>
bcVars  == <<bootconfig, bkey, lines, li, bst, visited, bret, bpc>>
envVars == <<is_dt_compatible, files, props, envChanges>>
dtVars  == <<guard, kAndroidDtDir, initRuns, initReads, returned>>
thrVars == <<pc, op, out_val, ret, reads, calls, android_dt_dir, lookup_ok, dt_dir>>
resVars == <<envVars, dtVars, thrVars>>
vars    == <<tokVars, bcVars, resVars>>

\* What the steps of one function leave alone: the state of the others.
notTok == <<bcVars, resVars>>
notBc  == <<tokVars, resVars>>
notRes == <<tokVars, bcVars>>

\* ------------------------------------------------------------------------
\* std::string primitives.

\* std::string::npos: the largest size_t, which exceeds every string length.
npos == 1000000

quote == "\""

Min(a, b) == IF a < b THEN a ELSE b

At(s, i) == s[i + 1]

\* s.find_first_of(chars, pos)
FindFirstOf(s, chars, pos) ==
    LET hits == {i \in 0..(Len(s) - 1) : i >= pos /\ At(s, i) \in chars}
    IN  IF hits = {} THEN npos ELSE CHOOSE i \in hits : \A j \in hits : i <= j

\* s.find(ch, pos)
Find(s, ch, pos) == FindFirstOf(s, {ch}, pos)

\* s.substr(pos, count), for pos <= s.size(); count is clamped to the end.
Substr(s, pos, count) == SubSeq(s, pos + 1, Min(pos + count, Len(s)))

\* std::remove_copy(s.begin(), s.end(), back_inserter(piece), ch), and the
\* erase(remove(...)) idiom: s without any occurrence of ch.
RemoveCopy(s, ch) == SelectSeq(s, LAMBDA c : c # ch)

\* ------------------------------------------------------------------------
\* fs_mgr_parse_cmdline

\* ScanStep with the quotes forgotten: every space delimits.
ScanStep_EverySpace(s, from) ==
    [found |-> FindFirstOf(s, {" "}, from), why |-> "delim"]

\* One evaluation of the inner "skip quoted spans" loop: its condition and,
\* when the condition holds, its body.  why = "span": a balanced quoted span
\* was skipped and the loop goes on; "unbalanced": no closing quote, found
\* becomes npos and the loop breaks; "delim": the condition is false (an
\* unquoted space, or nothing left).
ScanStep(s, from) ==
    LET f == FindFirstOf(s, {" ", quote}, from)
    IN  IF f = npos \/ At(s, f) # quote
        THEN [found |-> f, why |-> "delim"]
        ELSE LET g == Find(s, quote, f + 1)
             IN  IF g = npos
                 THEN [found |-> npos, why |-> "unbalanced"]
                 ELSE [found |-> g + 1, why |-> "span"]

\* The token text: the source between base and found with every quote removed.
PieceOf(s, b, f) == RemoveCopy(Substr(s, b, f - b), quote)

\* The pair a piece holding '=' is emitted as.
KeyValueOf(piece) ==
    LET equal_sign == Find(piece, "=", 0)
    IN  <<Substr(piece, 0, equal_sign), Substr(piece, equal_sign + 1, npos)>>

\* What result becomes for one piece.
EmitPiece(res, piece) ==
    IF Find(piece, "=", 0) = npos
    THEN IF piece # <<>> THEN Append(res, <<piece, <<>>>>) ELSE res
    ELSE Append(res, KeyValueOf(piece))

\* NextBase without the step past the delimiting space.
NextBase_OnDelimiter(f) == f

\* base = found + 1
NextBase(f) == f + 1

\* The inner loop run to its exit: the position of the delimiting space, or npos.
RECURSIVE SkipQuotedSpans(_, _)
SkipQuotedSpans(s, from) ==
    LET r == ScanStep(s, from)
    IN  IF r.why = "span" THEN SkipQuotedSpans(s, r.found) ELSE r.found

\* The outer loop from the given base on.
RECURSIVE ParseFrom(_, _, _)
ParseFrom(s, b, res) ==
    LET f   == SkipQuotedSpans(s, b)
        out == EmitPiece(res, PieceOf(s, b, f))
    IN  IF f = npos THEN out ELSE ParseFrom(s, NextBase(f), out)

fs_mgr_parse_cmdline(s) == ParseFrom(s, 0, <<>>)

\* const std::string cmdline_key("androidboot." + android_key)
kAndroidboot == <<"a", "n", "d", "r", "o", "i", "d", "b", "o", "o", "t",
    ".">>

\* The first pair of a parsed command line whose key is cmdline_key, the
\* range-for of fs_mgr_get_boot_config_from_kernel: [ret, out].
RECURSIVE FirstWithKey(_, _, _)
FirstWithKey(pairs, i, cmdline_key) ==
    IF i > Len(pairs) THEN [ret |-> FALSE, out |-> <<>>]
    ELSE IF pairs[i][1] = cmdline_key THEN [ret |-> TRUE, out |-> pairs[i][2]]
    ELSE FirstWithKey(pairs, i + 1, cmdline_key)

fs_mgr_get_boot_config_from_kernel(s, android_key) ==
    FirstWithKey(fs_mgr_parse_cmdline(s), 1, kAndroidboot \o android_key)

\* ------------------------------------------------------------------------
\* android::base string helpers, as boot_config.cpp uses them.

\* isspace() in the C locale.
IsSpace(c) == c \in {" ", "\t", "\n", "\r", "\f"}

RECURSIVE TrimLeft(_)
TrimLeft(s) == IF s # <<>> /\ IsSpace(Head(s)) THEN TrimLeft(Tail(s)) ELSE s

RECURSIVE TrimRight(_)
TrimRight(s) ==
    IF s # <<>> /\ IsSpace(s[Len(s)])
    THEN TrimRight(SubSeq(s, 1, Len(s) - 1)) ELSE s

\* android::base::Trim
Trim(s) == TrimRight(TrimLeft(s))

\* android::base::Split(s, "\n"): the pieces between newlines, empty ones kept.
RECURSIVE Split(_)
Split(s) ==
    LET nl == Find(s, "\n", 0)
    IN  IF nl = npos THEN <<s>>
        ELSE <<Substr(s, 0, nl)>> \o Split(Substr(s, nl + 1, npos))

StartsWith(s, prefix) ==
    Len(s) >= Len(prefix) /\ SubSeq(s, 1, Len(prefix)) = prefix

\* android::base::ConsumePrefix(&sv, "\"")
ConsumePrefix(s, prefix) ==
    IF StartsWith(s, prefix) THEN SubSeq(s, Len(prefix) + 1, Len(s)) ELSE s

\* android::base::ConsumeSuffix(&sv, "\"")
ConsumeSuffix(s, suffix) ==
    IF Len(s) >= Len(suffix) /\ SubSeq(s, Len(s) - Len(suffix) + 1, Len(s)) = suffix
    THEN SubSeq(s, 1, Len(s) - Len(suffix)) ELSE s

\* s.find(from, start_pos) for a string from
FindStr(s, from, start_pos) ==
    LET hits == {i \in 0..(Len(s) - Len(from)) :
                    i >= start_pos /\ SubSeq(s, i + 1, i + Len(from)) = from}
    IN  IF hits = {} THEN npos ELSE CHOOSE i \in hits : \A j \in hits : i <= j

\* android::base::StringReplace(s, from, to, true): left to right, each match
\* replaced, the search going on after the match.
RECURSIVE ReplaceFrom(_, _, _, _)
ReplaceFrom(s, from, to, start_pos) ==
    LET pos == FindStr(s, from, start_pos)
    IN  IF pos = npos THEN Substr(s, start_pos, npos)
        ELSE Substr(s, start_pos, pos - start_pos) \o to
                 \o ReplaceFrom(s, from, to, pos + Len(from))

StringReplace(s, from, to) == ReplaceFrom(s, from, to, 0)

\* ------------------------------------------------------------------------
\* ImportBootconfigFromString

kBootDevice == <<"a", "n", "d", "r", "o", "i", "d", "b", "o", "o", "t",
    ".", "b", "o", "o", "t", "_", "d", "e", "v", "i", "c", "e">>

kBootDevices == <<"a", "n", "d", "r", "o", "i", "d", "b", "o", "o", "t",
    ".", "b", "o", "o", "t", "_", "d", "e", "v", "i", "c", "e", "s">>

\* R"(", ")": what the kernel puts between the elements of a list value.
kListSeparator == <<"\"", ",", " ", "\"">>

\* std::string key = Trim(line.substr(0, equal_pos))
LineKey(line) == Trim(Substr(line, 0, Find(line, "=", 0)))

\* key == "androidboot.boot_device" || key == "androidboot.boot_devices"
IsBootDeviceKey(key) == key = kBootDevice \/ key = kBootDevices

\* The boot_device[s] branch: every quote erased.
BootDeviceValue(value) == RemoveCopy(value, quote)

\* ListValue with the trailing quote left in place.
ListValue_KeepsSuffix(value) ==
    StringReplace(ConsumePrefix(value, <<quote>>), kListSeparator, <<",">>)

\* The branch of every other key: one quote off each end, then the
\* separators replaced by commas.
ListValue(value) ==
    StringReplace(ConsumeSuffix(ConsumePrefix(value, <<quote>>), <<quote>>),
                  kListSeparator, <<",">>)

\* The value the visitor gets for a line with a non-empty key.
LineValue(line) ==
    LET equal_pos == Find(line, "=", 0)
        value     == Trim(Substr(line, equal_pos + 1, npos))
    IN  IF equal_pos = npos THEN <<>>
        ELSE IF IsBootDeviceKey(LineKey(line)) THEN BootDeviceValue(value)
        ELSE ListValue(value)

\* Visit without the !found test: the last match wins.
Visit_LastWins(st, key, config_key, value) ==
    IF config_key = key THEN [found |-> TRUE, out |-> value] ELSE st

\* The lambda of GetBootconfigFromString, on its captured state [found, out].
Visit(st, key, config_key, value) ==
    IF ~st.found /\ config_key = key
    THEN [found |-> TRUE, out |-> value]
    ELSE st

\* ImportBootconfigFromString over the lines from index i on, with the lambda
\* of GetBootconfigFromString as fn.
RECURSIVE ImportFrom(_, _, _, _)
ImportFrom(ls, i, key, st) ==
    IF i > Len(ls) THEN st
    ELSE IF LineKey(ls[i]) = <<>> THEN ImportFrom(ls, i + 1, key, st)
    ELSE ImportFrom(ls, i + 1, key,
                    Visit(st, key, LineKey(ls[i]), LineValue(ls[i])))

\* GetBootconfigFromString(bootconfig, key, out): [ret, out]; out is the
\* caller's string, left alone when the key is not found.
GetBootconfigFromString(s, key, out) ==
    LET st == ImportFrom(Split(s), 1, key, [found |-> FALSE, out |-> out])
    IN  [ret |-> st.found, out |-> st.out]

\* ------------------------------------------------------------------------
\* Strings up to a length over an alphabet.
StringsUpTo(chars, n) == UNION {[1..k -> chars] : k \in 0..n}

RECURSIVE Concat(_)
Concat(parts) == IF parts = <<>> THEN <<>> ELSE Head(parts) \o Concat(Tail(parts))

\* ------------------------------------------------------------------------
\* The tokenizer, statement by statement.

CmdlineSamples ==
    { <<"a", "=", "1", " ", "b", "=", "\"", "x", " ", "y", "\"", " ", "c", "=", "2">>,
      <<"a", "=", "1", " ", "b", "=", "\"", "u", "n", "t", " ", "c", "=", "2">>,
      <<"a", "=", "1", " ", " ", "b", " ", "a", "=", "2", "=", "3", " ", "=", "a">> }

CmdlineInputs == StringsUpTo({"a", "=", " ", quote}, MaxCmdlineLen) \cup CmdlineSamples

TokIdle ==
    /\ cmdline = <<>> /\ base = 0 /\ found = 0 /\ result = <<>> /\ tpc = "idle"

TokInit ==
    /\ cmdline \in CmdlineInputs
    /\ base = 0
    /\ found = 0
    /\ result = <<>>
    /\ tpc = "scan"

\* The inner loop skips one balanced quoted span and goes on.
SkipSpan ==
    /\ tpc = "scan"
    /\ ScanStep(cmdline, found).why = "span"
    /\ found' = ScanStep(cmdline, found).found
    /\ UNCHANGED <<cmdline, base, result, tpc, notTok>>

\* The inner loop finds a quote that is never closed and breaks.
UnbalancedQuote ==
    /\ tpc = "scan"
    /\ ScanStep(cmdline, found).why = "unbalanced"
    /\ found' = ScanStep(cmdline, found).found
    /\ tpc' = "piece"
    /\ UNCHANGED <<cmdline, base, result, notTok>>

\* The inner loop ends at an unquoted space or at the end of the string.
FoundDelimiter ==
    /\ tpc = "scan"
    /\ ScanStep(cmdline, found).why = "delim"
    /\ found' = ScanStep(cmdline, found).found
    /\ tpc' = "piece"
    /\ UNCHANGED <<cmdline, base, result, notTok>>

\* if (found == cmdline.npos) break; base = found + 1; and the next
\* iteration's auto found = base.
LoopTail ==
    IF found = npos
    THEN tpc' = "done" /\ UNCHANGED <<base, found>>
    ELSE base' = NextBase(found) /\ found' = base' /\ tpc' = "scan"

\* A piece without '=' that is empty: nothing is emitted.
DropEmptyPiece ==
    /\ tpc = "piece"
    /\ Find(PieceOf(cmdline, base, found), "=", 0) = npos
    /\ PieceOf(cmdline, base, found) = <<>>
    /\ result' = EmitPiece(result, PieceOf(cmdline, base, found))
    /\ LoopTail
    /\ UNCHANGED <<cmdline, notTok>>

\* A non-empty piece without '=': (piece, "").
EmitKeyOnly ==
    /\ tpc = "piece"
    /\ Find(PieceOf(cmdline, base, found), "=", 0) = npos
    /\ PieceOf(cmdline, base, found) # <<>>
    /\ result' = EmitPiece(result, PieceOf(cmdline, base, found))
    /\ LoopTail
    /\ UNCHANGED <<cmdline, notTok>>

\* A piece with '=': (text before the first '=', text after it).
EmitKeyValue ==
    /\ tpc = "piece"
    /\ Find(PieceOf(cmdline, base, found), "=", 0) # npos
    /\ result' = EmitPiece(result, PieceOf(cmdline, base, found))
    /\ LoopTail
    /\ UNCHANGED <<cmdline, notTok>>

TokNext ==
    \/ SkipSpan
    \/ UnbalancedQuote
    \/ FoundDelimiter
    \/ DropEmptyPiece
    \/ EmitKeyOnly
    \/ EmitKeyValue

\* ------------------------------------------------------------------------
\* GetBootconfigFromString over ImportBootconfigFromString, line by line.

kFoo == <<"f", "o", "o">>
kJunk == <<"?">>

\* Ways a key is written on a line.
KeyTexts ==
    { <<>>, <<" ">>, kFoo, <<" ">> \o kFoo \o <<" ">>, <<"\t">> \o kFoo,
      kBootDevice, kBootDevices \o <<" ">> }

\* Fragments a value is put together from.
ValueParts == { <<"v">>, <<quote>>, <<",">>, <<" ">>, kListSeparator }

ValueTexts == {Concat(ps) : ps \in StringsUpTo(ValueParts, MaxValueParts)}

OneLineBlobs ==
    KeyTexts \cup {k \o <<"=">> \o v : k \in KeyTexts, v \in ValueTexts}

SimpleValues ==
    { <<"v">>, <<" ">>,
      <<quote, "v", quote, ",", " ", quote, "w", quote>>,
      <<quote, "m", ",", "0", quote, ",", " ", quote, "m", ",", "1", quote>> }

SimpleLines ==
    {<<>>, kFoo, kBootDevice, <<"b", "a", "r">>}
        \cup {k \o <<" ", "=", " ">> \o v :
                 k \in {<<>>, kFoo, kBootDevice, kBootDevices}, v \in SimpleValues}

RECURSIVE JoinLines(_)
JoinLines(ls) ==
    IF ls = <<>> THEN <<>>
    ELSE IF Len(ls) = 1 THEN ls[1]
    ELSE ls[1] \o <<"\n">> \o JoinLines(Tail(ls))

ManyLineBlobs == {JoinLines(ls) : ls \in StringsUpTo(SimpleLines, MaxLines)}

BootconfigInputs == OneLineBlobs \cup ManyLineBlobs

TargetKeys == {kFoo, kBootDevice, kBootDevices, <<>>}

BcIdle ==
    /\ bootconfig = <<>> /\ bkey = <<>> /\ lines = <<>> /\ li = 1
    /\ bst = [found |-> FALSE, out |-> <<>>] /\ visited = <<>>
    /\ bret = FALSE /\ bpc = "idle"

BcInit ==
    /\ bootconfig \in BootconfigInputs
    /\ bkey \in TargetKeys
    /\ lines = Split(bootconfig)
    /\ li = 1
    /\ bst \in {[found |-> FALSE, out |-> o] : o \in {<<>>, kJunk}}
    /\ visited = <<>>
    /\ bret = FALSE
    /\ bpc = "import"

\* fn(key, value) with the lambda of GetBootconfigFromString; visited records
\* the call with the index of its line.
CallVisitor ==
    /\ bst' = Visit(bst, bkey, LineKey(lines[li]), LineValue(lines[li]))
    /\ visited' = Append(visited, <<li, LineKey(lines[li]), LineValue(lines[li])>>)
    /\ li' = li + 1
    /\ UNCHANGED <<bootconfig, bkey, lines, bret, bpc, notBc>>

\* if (key.empty()) continue;
SkipLine ==
    /\ bpc = "import" /\ li <= Len(lines)
    /\ LineKey(lines[li]) = <<>>
    /\ li' = li + 1
    /\ UNCHANGED <<bootconfig, bkey, lines, bst, visited, bret, bpc, notBc>>

\* A line without '=': fn(key, "").
VisitKeyOnly ==
    /\ bpc = "import" /\ li <= Len(lines)
    /\ LineKey(lines[li]) # <<>>
    /\ Find(lines[li], "=", 0) = npos
    /\ CallVisitor

\* A boot_device[s] line.
VisitBootDevice ==
    /\ bpc = "import" /\ li <= Len(lines)
    /\ LineKey(lines[li]) # <<>>
    /\ Find(lines[li], "=", 0) # npos
    /\ IsBootDeviceKey(LineKey(lines[li]))
    /\ CallVisitor

\* A line of any other key with '='.
VisitListValue ==
    /\ bpc = "import" /\ li <= Len(lines)
    /\ LineKey(lines[li]) # <<>>
    /\ Find(lines[li], "=", 0) # npos
    /\ ~IsBootDeviceKey(LineKey(lines[li]))
    /\ CallVisitor

\* return found;
ReturnFound ==
    /\ bpc = "import" /\ li > Len(lines)
    /\ bret' = bst.found
    /\ bpc' = "done"
    /\ UNCHANGED <<bootconfig, bkey, lines, li, bst, visited, notBc>>

BcNext ==
    \/ SkipLine
    \/ VisitKeyOnly
    \/ VisitBootDevice
    \/ VisitListValue
    \/ ReturnFound

\* ------------------------------------------------------------------------
\* The collaborators: files, properties.

\* What a path holds: a file with its content, or nothing that can be read.
NoFile == [exists |-> FALSE, content |-> <<>>]
File(c) == [exists |-> TRUE, content |-> c]

\* The '\0' that ends a device-tree string property.
kNul == "NUL"

kProcBootconfig == <<"/", "p", "r", "o", "c", "/", "b", "o", "o", "t", "c",
    "o", "n", "f", "i", "g">>

kProcCmdline == <<"/", "p", "r", "o", "c", "/", "c", "m", "d", "l", "i",
    "n", "e">>

kRoBoot == <<"r", "o", ".", "b", "o", "o", "t", ".">>

kAndroidDtDirKey == <<"a", "n", "d", "r", "o", "i", "d", "_", "d", "t",
    "_", "d", "i", "r">>

kDefaultDtDir == <<"/", "p", "r", "o", "c", "/", "d", "e", "v", "i", "c",
    "e", "-", "t", "r", "e", "e", "/", "f", "i", "r", "m", "w", "a", "r",
    "e", "/", "a", "n", "d", "r", "o", "i", "d", "/">>

\* android::base::ReadFileToString(path, &content): content is cleared
\* first, and stays empty when the file cannot be opened.
ReadFileToString(fs, path) ==
    IF path \in DOMAIN fs /\ fs[path].exists
    THEN [ok |-> TRUE, content |-> fs[path].content]
    ELSE [ok |-> FALSE, content |-> <<>>]

\* android::base::GetProperty(name, default_value)
GetProperty(ps, name, default_value) ==
    IF name \in DOMAIN ps /\ ps[name] # <<>> THEN ps[name] ELSE default_value

\* GetBootconfig(key, out): the result of the read is not looked at.
GetBootconfig(fs, key, out) ==
    GetBootconfigFromString(ReadFileToString(fs, kProcBootconfig).content, key, out)

\* if (!cmdline.empty() && cmdline.back() == '\n') cmdline.pop_back();
PopNewline(s) ==
    IF s # <<>> /\ s[Len(s)] = "\n" THEN SubSeq(s, 1, Len(s) - 1) ELSE s

\* fs_mgr_get_boot_config_from_kernel_cmdline(key, out_val): [ret, out];
\* a failed read returns false and leaves *out_val alone.
fs_mgr_get_boot_config_from_kernel_cmdline(fs, key, out) ==
    IF ~ReadFileToString(fs, kProcCmdline).ok
    THEN [ret |-> FALSE, out |-> out]
    ELSE fs_mgr_get_boot_config_from_kernel(
             PopNewline(ReadFileToString(fs, kProcCmdline).content), key)

\* ------------------------------------------------------------------------
\* GetAndroidDtDir

\* DtDirValue without the trailing '/'.
DtDirValue_NoSlash(ok, dir) == IF ok /\ dir # <<>> THEN dir ELSE kDefaultDtDir

\* What the initializer returns for the value ok of the || of the two
\* lookups and the string dir they left in android_dt_dir.
DtDirValue(ok, dir) ==
    IF ok /\ dir # <<>>
    THEN IF dir[Len(dir)] # "/" THEN Append(dir, "/") ELSE dir
    ELSE kDefaultDtDir

\* A static that every call may initialise while it is not yet initialised.
InitializerStarts_Unguarded(g) == g # "done"

\* The guard of the function-local static: the initializer starts for the
\* one call that finds the static not initialised and nobody initialising it.
InitializerStarts(g) == g = "uninit"

\* ------------------------------------------------------------------------
\* fs_mgr_get_boot_config

\* out_val->pop_back()
PopBack(s) == SubSeq(s, 1, Len(s) - 1)

\* An assignment that keeps the old string when the property is empty.
PropertyAssign_KeepsOld(out, value) == IF value # <<>> THEN value ELSE out

\* *out_val = GetProperty(...)
PropertyAssign(out, value) == value

\* The source tried after an empty property, with bootconfig left out.
AfterProperty_ToCmdline == "cmdline"

\* The source tried after an empty property.
AfterProperty == "bootconfig"

\* The source tried after bootconfig lacks the key, reading bootconfig again.
AfterBootconfig_Again == "bootconfig"

\* The source tried after bootconfig lacks the key.
AfterBootconfig == "cmdline"

\* ------------------------------------------------------------------------
\* The environments.

kDirD == <<"/", "d">>
kDirC == <<"/", "c", "/">>
kBaz == <<"b", "a", "z">>
kQux == <<"q", "u", "x">>

\* The key every modelled call of fs_mgr_get_boot_config asks for.
RequestKey == kFoo

DtPathDefault == kDefaultDtDir \o RequestKey
DtPathD == kDirD \o <<"/">> \o RequestKey
DtPathC == kDirC \o RequestKey

BootconfigLine(key, value) == key \o <<" ", "=", " ", quote>> \o value \o <<quote, "\n">>

BootconfigContents ==
    { NoFile,
      File(<<>>),
      File(BootconfigLine(kAndroidboot \o kFoo, kBaz)),
      File(BootconfigLine(kAndroidboot \o kAndroidDtDirKey, kDirD)
               \o BootconfigLine(kAndroidboot \o kFoo, kBaz)),
      File(BootconfigLine(kAndroidboot \o kAndroidDtDirKey, <<>>)) }

CmdlineContents ==
    { NoFile,
      File(<<"q", "u", "i", "e", "t", "\n">>),
      File(kAndroidboot \o kFoo \o <<"=">> \o kQux \o <<"\n">>),
      File(kAndroidboot \o kAndroidDtDirKey \o <<"=">> \o kDirC \o <<" ">>
               \o kAndroidboot \o kFoo \o <<"=">> \o kQux \o <<"\n">>),
      File(kAndroidboot \o kAndroidDtDirKey \o <<" ">> \o kAndroidboot \o kFoo) }

\* A file system: the two /proc files and a device-tree file for RequestKey
\* under each directory GetAndroidDtDir can give.
FileSystems ==
    { (kProcBootconfig :> b) @@ (kProcCmdline :> c) @@ (DtPathDefault :> x)
          @@ (DtPathD :> y) @@ (DtPathC :> z) :
        b \in BootconfigContents, c \in CmdlineContents,
        x \in {NoFile, File(<<"s", kNul>>)}, y \in {NoFile, File(<<kNul>>)},
        z \in {NoFile, File(<<>>)} }

PropertyStores == { (kRoBoot \o RequestKey) :> v : v \in {<<>>, <<"p">>} }

Threads == 1..NumThreads

NoReads ==
    [dt |-> 0, prop |-> 0, bootconfig |-> 0, cmdline |-> 0,
     init_bootconfig |-> 0, init_cmdline |-> 0]

ThreadsInit ==
    /\ pc = [t \in Threads |-> "idle"]
    /\ op = [t \in Threads |-> "none"]
    /\ out_val = [t \in Threads |-> <<>>]
    /\ ret = [t \in Threads |-> FALSE]
    /\ reads = [t \in Threads |-> NoReads]
    /\ calls = [t \in Threads |-> 0]
    /\ android_dt_dir = [t \in Threads |-> <<>>]
    /\ lookup_ok = [t \in Threads |-> FALSE]
    /\ dt_dir = [t \in Threads |-> <<>>]

StaticInit ==
    /\ guard = "uninit"
    /\ kAndroidDtDir = <<>>
    /\ initRuns = 0
    /\ initReads = [bootconfig |-> 0, cmdline |-> 0]
    /\ returned = {}

ResIdle ==
    /\ is_dt_compatible = FALSE
    /\ files = [p \in {kProcBootconfig} |-> NoFile]
    /\ props = [n \in {kRoBoot \o RequestKey} |-> <<>>]
    /\ envChanges = 0
    /\ StaticInit
    /\ ThreadsInit

\* The resolver's start: any environment.
ResInit ==
    /\ is_dt_compatible \in BOOLEAN
    /\ files \in FileSystems
    /\ props \in PropertyStores
    /\ envChanges = 0
    /\ StaticInit
    /\ ThreadsInit

\* The start of the runs of concurrent GetAndroidDtDir calls: any /proc
\* contents and no device-tree files.
DtDirInit ==
    /\ is_dt_compatible = TRUE
    /\ files \in {f \in FileSystems :
                     f[DtPathDefault] = NoFile /\ f[DtPathD] = NoFile /\ f[DtPathC] = NoFile}
    /\ props \in {ps \in PropertyStores : ps[kRoBoot \o RequestKey] = <<>>}
    /\ envChanges = 0
    /\ StaticInit
    /\ ThreadsInit

\* ------------------------------------------------------------------------
\* Steps of a thread.

\* A caller enters fs_mgr_get_boot_config(RequestKey, &out_val) with any
\* string in out_val.  is_dt_compatible() decides where it goes first.
Call_fs_mgr_get_boot_config(t) ==
    /\ pc[t] = "idle" /\ calls[t] < MaxCalls
    /\ \E o \in {<<>>, kJunk} : out_val' = [out_val EXCEPT ![t] = o]
    /\ op' = [op EXCEPT ![t] = "fs_mgr_get_boot_config"]
    /\ reads' = [reads EXCEPT ![t] = NoReads]
    /\ ret' = [ret EXCEPT ![t] = FALSE]
    /\ pc' = [pc EXCEPT ![t] = IF is_dt_compatible THEN "dtdir" ELSE "prop"]
    /\ UNCHANGED <<envVars, dtVars, calls, android_dt_dir, lookup_ok, dt_dir, notRes>>

\* A caller enters GetAndroidDtDir().
Call_GetAndroidDtDir(t) ==
    /\ pc[t] = "idle" /\ calls[t] < MaxCalls
    /\ op' = [op EXCEPT ![t] = "GetAndroidDtDir"]
    /\ reads' = [reads EXCEPT ![t] = NoReads]
    /\ pc' = [pc EXCEPT ![t] = "dtdir"]
    /\ UNCHANGED <<envVars, dtVars, out_val, ret, calls, android_dt_dir, lookup_ok,
                   dt_dir, notRes>>

\* Where a thread goes when GetAndroidDtDir returns.
AfterDtDir(t) == IF op[t] = "GetAndroidDtDir" THEN "done" ELSE "readdt"

\* The static is initialised: return kAndroidDtDir.
DtDirCached(t) ==
    /\ pc[t] = "dtdir"
    /\ guard = "done"
    /\ dt_dir' = [dt_dir EXCEPT ![t] = kAndroidDtDir]
    /\ returned' = returned \cup {kAndroidDtDir}
    /\ pc' = [pc EXCEPT ![t] = AfterDtDir(t)]
    /\ UNCHANGED <<envVars, guard, kAndroidDtDir, initRuns, initReads, op, out_val, ret,
                   reads, calls, android_dt_dir, lookup_ok, notRes>>

\* The static is not initialised: this call runs the initializer.  A call
\* that finds another one initialising waits (no step) until guard is "done".
DtDirBeginInit(t) ==
    /\ pc[t] = "dtdir"
    /\ InitializerStarts(guard)
    /\ guard' = "running"
    /\ initRuns' = initRuns + 1
    /\ android_dt_dir' = [android_dt_dir EXCEPT ![t] = <<>>]
    /\ lookup_ok' = [lookup_ok EXCEPT ![t] = FALSE]
    /\ pc' = [pc EXCEPT ![t] = "init_bootconfig"]
    /\ UNCHANGED <<envVars, kAndroidDtDir, initReads, returned, op, out_val, ret, reads,
                   calls, dt_dir, notRes>>

\* GetBootconfig("androidboot.android_dt_dir", &android_dt_dir) is true: the
\* || is decided and the command line is not looked at.
InitBootconfigFound(t) ==
    /\ pc[t] = "init_bootconfig"
    /\ GetBootconfig(files, kAndroidboot \o kAndroidDtDirKey, android_dt_dir[t]).ret
    /\ android_dt_dir' = [android_dt_dir EXCEPT ![t] =
           GetBootconfig(files, kAndroidboot \o kAndroidDtDirKey, android_dt_dir[t]).out]
    /\ lookup_ok' = [lookup_ok EXCEPT ![t] = TRUE]
    /\ reads' = [reads EXCEPT ![t].init_bootconfig = @ + 1]
    /\ initReads' = [initReads EXCEPT !.bootconfig = @ + 1]
    /\ pc' = [pc EXCEPT ![t] = "init_finish"]
    /\ UNCHANGED <<envVars, guard, kAndroidDtDir, initRuns, returned, op, out_val, ret,
                   calls, dt_dir, notRes>>

\* GetBootconfig(...) is false: android_dt_dir is as it was.
InitBootconfigMissing(t) ==
    /\ pc[t] = "init_bootconfig"
    /\ ~GetBootconfig(files, kAndroidboot \o kAndroidDtDirKey, android_dt_dir[t]).ret
    /\ android_dt_dir' = [android_dt_dir EXCEPT ![t] =
           GetBootconfig(files, kAndroidboot \o kAndroidDtDirKey, android_dt_dir[t]).out]
    /\ reads' = [reads EXCEPT ![t].init_bootconfig = @ + 1]
    /\ initReads' = [initReads EXCEPT !.bootconfig = @ + 1]
    /\ pc' = [pc EXCEPT ![t] = "init_cmdline"]
    /\ UNCHANGED <<envVars, guard, kAndroidDtDir, initRuns, returned, op, out_val, ret,
                   calls, lookup_ok, dt_dir, notRes>>

\* fs_mgr_get_boot_config_from_kernel_cmdline("android_dt_dir", &android_dt_dir)
InitKernelCmdline(t) ==
    /\ pc[t] = "init_cmdline"
    /\ android_dt_dir' = [android_dt_dir EXCEPT ![t] =
           fs_mgr_get_boot_config_from_kernel_cmdline(
               files, kAndroidDtDirKey, android_dt_dir[t]).out]
    /\ lookup_ok' = [lookup_ok EXCEPT ![t] =
           fs_mgr_get_boot_config_from_kernel_cmdline(
               files, kAndroidDtDirKey, android_dt_dir[t]).ret]
    /\ reads' = [reads EXCEPT ![t].init_cmdline = @ + 1]
    /\ initReads' = [initReads EXCEPT !.cmdline = @ + 1]
    /\ pc' = [pc EXCEPT ![t] = "init_finish"]
    /\ UNCHANGED <<envVars, guard, kAndroidDtDir, initRuns, returned, op, out_val, ret,
                   calls, dt_dir, notRes>>

\* The lambda returns; the static holds its value and the guard is released.
InitFinish(t) ==
    /\ pc[t] = "init_finish"
    /\ kAndroidDtDir' = DtDirValue(lookup_ok[t], android_dt_dir[t])
    /\ guard' = "done"
    /\ dt_dir' = [dt_dir EXCEPT ![t] = kAndroidDtDir']
    /\ returned' = returned \cup {kAndroidDtDir'}
    /\ pc' = [pc EXCEPT ![t] = AfterDtDir(t)]
    /\ UNCHANGED <<envVars, initRuns, initReads, op, out_val, ret, reads, calls,
                   android_dt_dir, lookup_ok, notRes>>

\* The device-tree file is read and not empty: its last byte is dropped.
DeviceTreeFound(t) ==
    /\ pc[t] = "readdt"
    /\ ReadFileToString(files, dt_dir[t] \o RequestKey).ok
    /\ ReadFileToString(files, dt_dir[t] \o RequestKey).content # <<>>
    /\ out_val' = [out_val EXCEPT ![t] =
           PopBack(ReadFileToString(files, dt_dir[t] \o RequestKey).content)]
    /\ ret' = [ret EXCEPT ![t] = TRUE]
    /\ reads' = [reads EXCEPT ![t].dt = @ + 1]
    /\ pc' = [pc EXCEPT ![t] = "done"]
    /\ UNCHANGED <<envVars, dtVars, op, calls, android_dt_dir, lookup_ok, dt_dir, notRes>>

\* The device-tree file cannot be read, or is empty.
DeviceTreeMissing(t) ==
    /\ pc[t] = "readdt"
    /\ \/ ~ReadFileToString(files, dt_dir[t] \o RequestKey).ok
       \/ ReadFileToString(files, dt_dir[t] \o RequestKey).content = <<>>
    /\ out_val' = [out_val EXCEPT ![t] =
           ReadFileToString(files, dt_dir[t] \o RequestKey).content]
    /\ reads' = [reads EXCEPT ![t].dt = @ + 1]
    /\ pc' = [pc EXCEPT ![t] = "prop"]
    /\ UNCHANGED <<envVars, dtVars, op, ret, calls, android_dt_dir, lookup_ok, dt_dir,
                   notRes>>

\* The property ro.boot.<key> is not empty.
PropertyFound(t) ==
    /\ pc[t] = "prop"
    /\ GetProperty(props, kRoBoot \o RequestKey, <<>>) # <<>>
    /\ out_val' = [out_val EXCEPT ![t] =
           PropertyAssign(@, GetProperty(props, kRoBoot \o RequestKey, <<>>))]
    /\ ret' = [ret EXCEPT ![t] = TRUE]
    /\ reads' = [reads EXCEPT ![t].prop = @ + 1]
    /\ pc' = [pc EXCEPT ![t] = "done"]
    /\ UNCHANGED <<envVars, dtVars, op, calls, android_dt_dir, lookup_ok, dt_dir, notRes>>

\* The property is empty or absent.
PropertyEmpty(t) ==
    /\ pc[t] = "prop"
    /\ GetProperty(props, kRoBoot \o RequestKey, <<>>) = <<>>
    /\ out_val' = [out_val EXCEPT ![t] =
           PropertyAssign(@, GetProperty(props, kRoBoot \o RequestKey, <<>>))]
    /\ reads' = [reads EXCEPT ![t].prop = @ + 1]
    /\ pc' = [pc EXCEPT ![t] = AfterProperty]
    /\ UNCHANGED <<envVars, dtVars, op, ret, calls, android_dt_dir, lookup_ok, dt_dir,
                   notRes>>

\* GetBootconfig("androidboot." + key, out_val) is true.
BootconfigFound(t) ==
    /\ pc[t] = "bootconfig"
    /\ GetBootconfig(files, kAndroidboot \o RequestKey, out_val[t]).ret
    /\ out_val' = [out_val EXCEPT ![t] =
           GetBootconfig(files, kAndroidboot \o RequestKey, out_val[t]).out]
    /\ ret' = [ret EXCEPT ![t] = TRUE]
    /\ reads' = [reads EXCEPT ![t].bootconfig = @ + 1]
    /\ pc' = [pc EXCEPT ![t] = "done"]
    /\ UNCHANGED <<envVars, dtVars, op, calls, android_dt_dir, lookup_ok, dt_dir, notRes>>

\* GetBootconfig(...) is false.
BootconfigMissing(t) ==
    /\ pc[t] = "bootconfig"
    /\ ~GetBootconfig(files, kAndroidboot \o RequestKey, out_val[t]).ret
    /\ out_val' = [out_val EXCEPT ![t] =
           GetBootconfig(files, kAndroidboot \o RequestKey, out_val[t]).out]
    /\ reads' = [reads EXCEPT ![t].bootconfig = @ + 1]
    /\ pc' = [pc EXCEPT ![t] = AfterBootconfig]
    /\ UNCHANGED <<envVars, dtVars, op, ret, calls, android_dt_dir, lookup_ok, dt_dir,
                   notRes>>

\* fs_mgr_get_boot_config_from_kernel_cmdline(key, out_val) is true.
CmdlineFound(t) ==
    /\ pc[t] = "cmdline"
    /\ fs_mgr_get_boot_config_from_kernel_cmdline(files, RequestKey, out_val[t]).ret
    /\ out_val' = [out_val EXCEPT ![t] =
           fs_mgr_get_boot_config_from_kernel_cmdline(files, RequestKey, out_val[t]).out]
    /\ ret' = [ret EXCEPT ![t] = TRUE]
    /\ reads' = [reads EXCEPT ![t].cmdline = @ + 1]
    /\ pc' = [pc EXCEPT ![t] = "done"]
    /\ UNCHANGED <<envVars, dtVars, op, calls, android_dt_dir, lookup_ok, dt_dir, notRes>>

\* It is false, the file unread or the key not in it: return false.
CmdlineMissing(t) ==
    /\ pc[t] = "cmdline"
    /\ ~fs_mgr_get_boot_config_from_kernel_cmdline(files, RequestKey, out_val[t]).ret
    /\ out_val' = [out_val EXCEPT ![t] =
           fs_mgr_get_boot_config_from_kernel_cmdline(files, RequestKey, out_val[t]).out]
    /\ ret' = [ret EXCEPT ![t] = FALSE]
    /\ reads' = [reads EXCEPT ![t].cmdline = @ + 1]
    /\ pc' = [pc EXCEPT ![t] = "done"]
    /\ UNCHANGED <<envVars, dtVars, op, calls, android_dt_dir, lookup_ok, dt_dir, notRes>>

\* The caller has the result and may call again.
TakeResult(t) ==
    /\ pc[t] = "done"
    /\ pc' = [pc EXCEPT ![t] = "idle"]
    /\ calls' = [calls EXCEPT ![t] = @ + 1]
    /\ UNCHANGED <<envVars, dtVars, op, out_val, ret, reads, android_dt_dir, lookup_ok,
                   dt_dir, notRes>>

\* Between calls the contents of /proc/bootconfig and /proc/cmdline change.
EnvChange ==
    /\ envChanges < MaxEnvChanges
    /\ \E t \in Threads : calls[t] < MaxCalls
    /\ \A t \in Threads : pc[t] = "idle"
    /\ \E b \in BootconfigContents, c \in CmdlineContents :
          /\ <<b, c>> # <<files[kProcBootconfig], files[kProcCmdline]>>
          /\ files' = [files EXCEPT ![kProcBootconfig] = b, ![kProcCmdline] = c]
    /\ envChanges' = envChanges + 1
    /\ UNCHANGED <<is_dt_compatible, props, dtVars, thrVars, notRes>>

\* ------------------------------------------------------------------------
\* Specifications.

\* fs_mgr_get_boot_config and GetAndroidDtDir called by one thread, over every
\* environment.
Init == ResInit /\ TokIdle /\ BcIdle
Next ==
    \/ Call_fs_mgr_get_boot_config(1)
    \/ Call_GetAndroidDtDir(1)
    \/ DtDirCached(1)
    \/ DtDirBeginInit(1)
    \/ InitBootconfigFound(1)
    \/ InitBootconfigMissing(1)
    \/ InitKernelCmdline(1)
    \/ InitFinish(1)
    \/ DeviceTreeFound(1)
    \/ DeviceTreeMissing(1)
    \/ PropertyFound(1)
    \/ PropertyEmpty(1)
    \/ BootconfigFound(1)
    \/ BootconfigMissing(1)
    \/ CmdlineFound(1)
    \/ CmdlineMissing(1)
    \/ TakeResult(1)
    \/ EnvChange
Spec == Init /\ [][Next]_vars

\* GetAndroidDtDir called by every thread, in any interleaving.
InitDtDir == DtDirInit /\ TokIdle /\ BcIdle
NextDtDir ==
    \/ \E t \in Threads : Call_GetAndroidDtDir(t)
    \/ \E t \in Threads : DtDirCached(t)
    \/ \E t \in Threads : DtDirBeginInit(t)
    \/ \E t \in Threads : InitBootconfigFound(t)
    \/ \E t \in Threads : InitBootconfigMissing(t)
    \/ \E t \in Threads : InitKernelCmdline(t)
    \/ \E t \in Threads : InitFinish(t)
    \/ \E t \in Threads : TakeResult(t)
    \/ EnvChange
SpecDtDir == InitDtDir /\ [][NextDtDir]_vars

\* fs_mgr_parse_cmdline over every command line.
InitTokenizer == TokInit /\ BcIdle /\ ResIdle
NextCmdline == TokNext
SpecCmdline == InitTokenizer /\ [][NextCmdline]_vars
\* The loop is straight-line code of one thread: a step that can be taken is taken.
SpecCmdlineFair == SpecCmdline /\ WF_vars(NextCmdline)

\* GetBootconfigFromString over every bootconfig.
InitBootconfig == BcInit /\ TokIdle /\ ResIdle
NextBootconfig == BcNext
SpecBootconfig == InitBootconfig /\ [][NextBootconfig]_vars

\* ------------------------------------------------------------------------
\* Properties of the tokenizer.

\* C3: every pair fs_mgr_parse_cmdline emits has a non-empty key; a token
\* that begins with '=' is dropped.
C3_KeysNonEmpty == \A i \in 1..Len(result) : result[i][1] # <<>>

\* The tokens of a command line, read character by character: a quote opens
\* or closes a quoted span and is not kept, a space outside a span ends the
\* token, anything else belongs to the token.
RECURSIVE TokensByChar(_, _, _, _)
TokensByChar(s, i, inSpan, cur) ==
    IF i > Len(s) THEN <<cur>>
    ELSE IF s[i] = quote THEN TokensByChar(s, i + 1, ~inSpan, cur)
    ELSE IF s[i] = " " /\ ~inSpan THEN <<cur>> \o TokensByChar(s, i + 1, FALSE, <<>>)
    ELSE TokensByChar(s, i + 1, inSpan, Append(cur, s[i]))

RECURSIVE UpToEq(_)
UpToEq(t) == IF t = <<>> \/ Head(t) = "=" THEN <<>> ELSE <<Head(t)>> \o UpToEq(Tail(t))

RECURSIVE AfterEq(_)
AfterEq(t) == IF t = <<>> THEN <<>> ELSE IF Head(t) = "=" THEN Tail(t) ELSE AfterEq(Tail(t))

\* The pairs of the non-empty tokens, in the tokens' order.
RECURSIVE PairsOfTokens(_)
PairsOfTokens(ts) ==
    IF ts = <<>> THEN <<>>
    ELSE IF Head(ts) = <<>> THEN PairsOfTokens(Tail(ts))
    ELSE <<<<UpToEq(Head(ts)), AfterEq(Head(ts))>>>> \o PairsOfTokens(Tail(ts))

\* C4: the result is the pairs of the tokens cut at the spaces outside quoted
\* spans, quotes removed, each split at its first '=', in order, duplicates
\* kept; `a=1 b="x y" c=2` gives [(a,1),(b,x y),(c,2)] and
\* `a=1 b="unt c=2` gives [(a,1),(b,unt c=2)].
C4_TokensInOrder ==
    tpc = "done" =>
        /\ result = PairsOfTokens(TokensByChar(cmdline, 1, FALSE, <<>>))
        /\ cmdline = <<"a", "=", "1", " ", "b", "=", "\"", "x", " ", "y", "\"", " ", "c", "=", "2">>
              => result = << <<<<"a">>, <<"1">>>>, <<<<"b">>, <<"x", " ", "y">>>>,
                             <<<<"c">>, <<"2">>>> >>
        /\ cmdline = <<"a", "=", "1", " ", "b", "=", "\"", "u", "n", "t", " ", "c", "=", "2">>
              => result = << <<<<"a">>, <<"1">>>>,
                             <<<<"b">>, <<"u", "n", "t", " ", "c", "=", "2">>>> >>

\* A finished run over two spaces, a token without '=', a repeated key and a
\* second '=': `a=1  b a=2=3 =a`.
C4_Witness ==
    /\ tpc = "done"
    /\ cmdline = <<"a", "=", "1", " ", " ", "b", " ", "a", "=", "2", "=", "3", " ", "=", "a">>
    /\ result = << <<<<"a">>, <<"1">>>>, <<<<"b">>, <<>>>>,
                   <<<<"a">>, <<"2", "=", "3">>>>, <<<<>>, <<"a">>>> >>

\* C10: the scanning loop terminates; the scan start position grows on every
\* iteration of the outer loop, and found grows on every turn of the inner one.
C10_Terminates ==
    /\ <>(tpc = "done")
    /\ [][(tpc = "piece" /\ tpc' = "scan") => base' > base]_vars
    /\ [][(tpc = "scan" /\ tpc' = "scan") => found' > found]_vars

\* A finished run over an unbalanced quote after two spaces.
C10_Witness ==
    /\ tpc = "done"
    /\ cmdline = <<" ", " ", "a", quote, " ">>
    /\ base = 2
    /\ found = npos

\* ------------------------------------------------------------------------
\* Properties of the bootconfig parser.

HasEq(line) == \E i \in 1..Len(line) : line[i] = "="

\* s without its leading and trailing whitespace: from its first
\* non-whitespace character to its last.
Trimmed(s) ==
    LET keep == {i \in 1..Len(s) : ~IsSpace(s[i])}
    IN  IF keep = {} THEN <<>>
        ELSE SubSeq(s, CHOOSE i \in keep : \A j \in keep : i <= j,
                       CHOOSE i \in keep : \A j \in keep : i >= j)

RECURSIVE NoQuotes(_)
NoQuotes(s) ==
    IF s = <<>> THEN <<>>
    ELSE IF Head(s) = quote THEN NoQuotes(Tail(s))
    ELSE <<Head(s)>> \o NoQuotes(Tail(s))

\* At most one leading and at most one trailing quote removed.
EndsStripped(s) ==
    LET a == IF s # <<>> /\ s[1] = quote THEN Tail(s) ELSE s
    IN  IF a # <<>> /\ a[Len(a)] = quote THEN SubSeq(a, 1, Len(a) - 1) ELSE a

\* Every quote-comma-space-quote, from the left, replaced by a comma.
RECURSIVE SeparatorsToCommas(_)
SeparatorsToCommas(s) ==
    IF s = <<>> THEN <<>>
    ELSE IF Len(s) >= 4 /\ s[1] = quote /\ s[2] = "," /\ s[3] = " " /\ s[4] = quote
         THEN <<",">> \o SeparatorsToCommas(SubSeq(s, 5, Len(s)))
    ELSE <<Head(s)>> \o SeparatorsToCommas(Tail(s))

KeyOfLine(line) == Trimmed(UpToEq(line))

ValueOfLine(line) ==
    IF ~HasEq(line) THEN <<>>
    ELSE IF KeyOfLine(line) \in {kBootDevice, kBootDevices}
         THEN NoQuotes(Trimmed(AfterEq(line)))
    ELSE SeparatorsToCommas(EndsStripped(Trimmed(AfterEq(line))))

\* C5: every line with '=' and a non-empty trimmed key reaches the visitor
\* with its trimmed key and the value the rules give: for boot_device[s] the
\* trimmed text after the first '=' without its quotes, for any other key
\* that text with one quote off each end and the separators made commas.
C5_NormalizedValues ==
    /\ \A n \in 1..Len(visited) :
          /\ visited[n][2] = KeyOfLine(lines[visited[n][1]])
          /\ HasEq(lines[visited[n][1]])
                => visited[n][3] = ValueOfLine(lines[visited[n][1]])
    /\ \A i \in 1..Len(lines) :
          (i < li /\ HasEq(lines[i]) /\ KeyOfLine(lines[i]) # <<>>)
              => \E n \in 1..Len(visited) : visited[n][1] = i

\* Both documented examples visited in one blob:
\* androidboot.boot_device = "m,0", "m,1" gives m,0, m,1 and
\* foo = "v", "w" gives v,w.
C5_Witness ==
    /\ bpc = "done"
    /\ Len(visited) = 2
    /\ visited[1] = <<1, kBootDevice, <<"m", ",", "0", ",", " ", "m", ",", "1">>>>
    /\ visited[2] = <<2, kFoo, <<"v", ",", "w">>>>

MatchingLines == {i \in 1..Len(lines) : KeyOfLine(lines[i]) # <<>> /\ KeyOfLine(lines[i]) = bkey}

FirstMatchingLine == CHOOSE i \in MatchingLines : \A j \in MatchingLines : i <= j

\* C6: GetBootconfigFromString returns true with the normalized value of the
\* first line whose key is the target key, whatever later lines with that key
\* hold, and false when no line has the key.
C6_FirstOccurrenceWins ==
    bpc = "done" =>
        IF MatchingLines = {}
        THEN bret = FALSE
        ELSE bret = TRUE /\ bst.out = ValueOfLine(lines[FirstMatchingLine])

\* A finished lookup over two lines with the key and different values.
C6_Witness ==
    /\ bpc = "done"
    /\ bret = TRUE
    /\ Cardinality(MatchingLines) = 2
    /\ \E i \in MatchingLines : ValueOfLine(lines[i]) # bst.out

\* ------------------------------------------------------------------------
\* Properties of the resolver and of GetAndroidDtDir.

Resolved(t) == pc[t] = "done" /\ op[t] = "fs_mgr_get_boot_config"

\* The first source, in the order device tree, property, bootconfig, kernel
\* command line, that has a value for RequestKey in the environment as it is.
FirstSuccess ==
    LET dt   == ReadFileToString(files, kAndroidDtDir \o RequestKey)
        prop == GetProperty(props, kRoBoot \o RequestKey, <<>>)
        bc   == ReadFileToString(files, kProcBootconfig)
        bcv  == GetBootconfigFromString(bc.content, kAndroidboot \o RequestKey, <<>>)
        cl   == ReadFileToString(files, kProcCmdline)
        clv  == fs_mgr_get_boot_config_from_kernel(PopNewline(cl.content), RequestKey)
    IN  IF is_dt_compatible /\ dt.ok /\ dt.content # <<>>
        THEN [found |-> TRUE, source |-> "dt",
              value |-> SubSeq(dt.content, 1, Len(dt.content) - 1)]
        ELSE IF prop # <<>>
        THEN [found |-> TRUE, source |-> "prop", value |-> prop]
        ELSE IF bc.ok /\ bcv.ret
        THEN [found |-> TRUE, source |-> "bootconfig", value |-> bcv.out]
        ELSE IF cl.ok /\ clv.ret
        THEN [found |-> TRUE, source |-> "cmdline", value |-> clv.out]
        ELSE [found |-> FALSE, source |-> "none", value |-> <<>>]

\* Device tree incompatible, property empty, bootconfig androidboot.foo = "baz",
\* cmdline androidboot.foo=qux.
BazQuxEnvironment ==
    /\ ~is_dt_compatible
    /\ props[kRoBoot \o RequestKey] = <<>>
    /\ files[kProcBootconfig] = File(BootconfigLine(kAndroidboot \o kFoo, kBaz))
    /\ files[kProcCmdline] = File(kAndroidboot \o kFoo \o <<"=">> \o kQux \o <<"\n">>)

\* C1: fs_mgr_get_boot_config returns the result of the first source that
\* succeeds, in the order device tree, property, bootconfig, cmdline, and no
\* later source's value; in the baz/qux environment it returns (baz, true).
C1_FirstSourceWins ==
    \A t \in Threads :
        Resolved(t) =>
            /\ ret[t] = FirstSuccess.found
            /\ FirstSuccess.found => out_val[t] = FirstSuccess.value
            /\ BazQuxEnvironment => (ret[t] = TRUE /\ out_val[t] = kBaz)

\* The example: a finished call in the baz/qux environment.
C1_Witness == Resolved(1) /\ BazQuxEnvironment /\ out_val[1] = kBaz

\* C2: when fs_mgr_get_boot_config returns false, *out_val is empty.
C2_EmptyOnFailure ==
    \A t \in Threads : (Resolved(t) /\ ret[t] = FALSE) => out_val[t] = <<>>

\* A failed call in which the device tree was tried and neither /proc file
\* could be read.
C2_Witness ==
    /\ Resolved(1) /\ ret[1] = FALSE
    /\ is_dt_compatible
    /\ reads[1].dt = 1 /\ reads[1].cmdline = 1
    /\ ~files[kProcBootconfig].exists
    /\ ~files[kProcCmdline].exists

\* C7: the initializer of GetAndroidDtDir runs at most once and reads each
\* /proc file at most once, whatever changed since; a call returns only once
\* the static is initialised, and every call returns the same string.
C7_ComputedOnce ==
    /\ initRuns <= 1
    /\ initReads.bootconfig <= 1 /\ initReads.cmdline <= 1
    /\ Cardinality(returned) <= 1
    /\ \A t \in Threads :
          (pc[t] = "done" /\ op[t] = "GetAndroidDtDir")
              => (guard = "done" /\ dt_dir[t] = kAndroidDtDir /\ returned = {dt_dir[t]})

\* Both threads have returned, thread 1 from its second call, after /proc
\* changed to contents that would give another directory.
C7_Witness ==
    /\ pc[1] = "done" /\ pc[2] = "done"
    /\ op[1] = "GetAndroidDtDir" /\ op[2] = "GetAndroidDtDir"
    /\ calls[1] = 1
    /\ envChanges = 1
    /\ dt_dir[1] = kDefaultDtDir
    /\ files[kProcBootconfig] =
           File(BootconfigLine(kAndroidboot \o kAndroidDtDirKey, kDirD)
                    \o BootconfigLine(kAndroidboot \o kFoo, kBaz))

BootconfigDtDir == GetBootconfig(files, kAndroidboot \o kAndroidDtDirKey, <<>>)

CmdlineDtDir == fs_mgr_get_boot_config_from_kernel_cmdline(files, kAndroidDtDirKey, <<>>)

EndsInSlash(d) == IF d[Len(d)] = "/" THEN d ELSE d \o <<"/">>

\* The initializer finishes in this step.
Initialised == guard # "done" /\ guard' = "done"

\* C8 as stated: the directory is the non-empty string of either lookup,
\* with a '/' at its end; the fallback only when neither gives one.
C8_EitherLookup ==
    [][Initialised =>
          kAndroidDtDir' =
              IF BootconfigDtDir.ret /\ BootconfigDtDir.out # <<>>
              THEN EndsInSlash(BootconfigDtDir.out)
              ELSE IF CmdlineDtDir.ret /\ CmdlineDtDir.out # <<>>
              THEN EndsInSlash(CmdlineDtDir.out)
              ELSE kDefaultDtDir]_vars

\* C8 as amended: the command line is looked at only when bootconfig does not
\* hold the key; the directory is the string of the lookup that found the
\* key, with a '/' at its end, and the fallback when that string is empty or
\* no lookup found the key.
C8_FirstLookupThatFinds ==
    [][Initialised =>
          kAndroidDtDir' =
              IF BootconfigDtDir.ret
              THEN IF BootconfigDtDir.out # <<>>
                   THEN EndsInSlash(BootconfigDtDir.out) ELSE kDefaultDtDir
              ELSE IF CmdlineDtDir.ret /\ CmdlineDtDir.out # <<>>
              THEN EndsInSlash(CmdlineDtDir.out)
              ELSE kDefaultDtDir]_vars

\* Initialised from a bootconfig that holds the key with an empty value and a
\* command line that holds it with /c/: the fallback is cached.
C8_Witness ==
    /\ guard = "done"
    /\ envChanges = 0
    /\ files[kProcBootconfig] = File(BootconfigLine(kAndroidboot \o kAndroidDtDirKey, <<>>))
    /\ CmdlineDtDir.out = kDirC
    /\ kAndroidDtDir = kDefaultDtDir

\* C9 as stated: during a call of fs_mgr_get_boot_config every source is read
\* at most once, the reads of GetAndroidDtDir's initializer counted.
C9_EachSourceOnce ==
    \A t \in Threads :
        op[t] = "fs_mgr_get_boot_config" =>
            /\ reads[t].dt <= 1
            /\ reads[t].prop <= 1
            /\ reads[t].bootconfig + reads[t].init_bootconfig <= 1
            /\ reads[t].cmdline + reads[t].init_cmdline <= 1

\* C9 as amended: the resolver's own lookups read every source at most once
\* during a call; beyond them only the initializer of GetAndroidDtDir reads
\* /proc/bootconfig and /proc/cmdline, at most once each in the process.
C9_OwnLookupsOnce ==
    \A t \in Threads :
        op[t] = "fs_mgr_get_boot_config" =>
            /\ reads[t].dt <= 1
            /\ reads[t].prop <= 1
            /\ reads[t].bootconfig <= 1
            /\ reads[t].cmdline <= 1
            /\ reads[t].init_bootconfig <= initReads.bootconfig
            /\ reads[t].init_cmdline <= initReads.cmdline
            /\ initReads.bootconfig <= 1
            /\ initReads.cmdline <= 1

\* A first call that read both /proc files twice: once in the initializer,
\* once in its own lookups.
C9_Witness ==
    /\ Resolved(1)
    /\ reads[1].init_bootconfig = 1 /\ reads[1].bootconfig = 1
    /\ reads[1].init_cmdline = 1 /\ reads[1].cmdline = 1

====
